---------------------------- MODULE Spec2Model ----------------------------
(* A model of cd_project.py: the tokenizer, the recursive-descent parser,   *)
(* the two code generators and the GUI handler translate_code.              *)
(*                                                                          *)
(* Text is a sequence of characters (one-character strings); a literal      *)
(* fragment of an f-string is written as a TLA+ string and Str turns an     *)
(* interpolated character sequence into one.  Each function of the source   *)
(* is a frame record (its local variables and a position pc) with one step  *)
(* operator per statement group; the function as a whole is the iteration   *)
(* of its steps to "returned" or "raised".                                  *)
EXTENDS Integers, Sequences, FiniteSets, TLC

VARIABLES lex, prs, gen, gui

vars == <<lex, prs, gen, gui>>

----------------------------------------------------------------------------
(* Bounds of the model.                                                     *)

\* the longest input of the tokenizer, in pieces (a keyword or a character)
MaxPieces == 3

\* the longest program of the parser, in statements
MaxStmts == 2

\* the longest program of the generators, in nodes
MaxNodes == 3

----------------------------------------------------------------------------
(* Text.                                                                    *)

RECURSIVE Str(_)
Str(s) == IF s = <<>> THEN "" ELSE Head(s) \o Str(Tail(s))

RECURSIVE Flatten(_)
Flatten(ss) == IF ss = <<>> THEN <<>> ELSE Head(ss) \o Flatten(Tail(ss))

Slice(s, a, b) == SubSeq(s, a + 1, b)

NoValue == "None"

Lower == {"a", "b", "c", "d", "e", "f", "g", "h", "i", "j", "k", "l", "m",
          "n", "o", "p", "q", "r", "s", "t", "u", "v", "w", "x", "y", "z"}

Upper == {"A", "B", "C", "D", "E", "F", "G", "H", "I", "J", "K", "L", "M",
          "N", "O", "P", "Q", "R", "S", "T", "U", "V", "W", "X", "Y", "Z"}

Digit == {"0", "1", "2", "3", "4", "5", "6", "7", "8", "9"}

\* [A-Za-z_]
IdStart == Lower \cup Upper \cup {"_"}

\* \w
Word == IdStart \cup Digit

\* [ \t]
Blank == {" ", "\t"}

----------------------------------------------------------------------------
(* tokenize: the patterns of token_spec.  Positions are 0-based offsets as  *)
(* in Python; code[p] of the source is code[p + 1] here.                    *)

At(code, p) == IF p >= 0 /\ p < Len(code) THEN code[p + 1] ELSE NoValue

\* \b at offset p: exactly one of the characters around p is a word character
WordBoundary(code, p) == (At(code, p - 1) \in Word) # (At(code, p) \in Word)

\* the length of the longest run of characters of class at offset p
RECURSIVE Run(_, _, _)
Run(code, p, class) ==
    IF At(code, p) \in class THEN 1 + Run(code, p + 1, class) ELSE 0

\* \bword\b
KeywordLen(code, p, word) ==
    IF /\ p + Len(word) <= Len(code)
       /\ Slice(code, p, p + Len(word)) = word
       /\ WordBoundary(code, p)
       /\ WordBoundary(code, p + Len(word))
    THEN Len(word) ELSE 0

\* the length of the longest run of characters other than c at offset p
RECURSIVE RunNot(_, _, _)
RunNot(code, p, c) ==
    IF p < Len(code) /\ At(code, p) # c THEN 1 + RunNot(code, p + 1, c) ELSE 0

\* "[^"]*"
StringLen(code, p) ==
    IF At(code, p) = "\""
    THEN LET n == RunNot(code, p + 1, "\"")
         IN  IF At(code, p + 1 + n) = "\"" THEN n + 2 ELSE 0
    ELSE 0

CharLen(code, p, c) == IF At(code, p) = c THEN 1 ELSE 0

token_spec ==
    << "DEF", "PRINT", "STRING", "NUMBER", "ASSIGN", "LPAREN", "RPAREN",
       "COLON", "COMMA", "PLUS", "ID", "NEWLINE", "SKIP", "MISMATCH" >>

\* the length of the match of one alternative of tok_regex at offset p, 0 for none
PatternLen(kind, code, p) ==
    CASE kind = "DEF"      -> KeywordLen(code, p, <<"d", "e", "f">>)
      [] kind = "PRINT"    -> KeywordLen(code, p, <<"p", "r", "i", "n", "t">>)
      [] kind = "STRING"   -> StringLen(code, p)
      [] kind = "NUMBER"   -> Run(code, p, Digit)
      [] kind = "ASSIGN"   -> CharLen(code, p, "=")
      [] kind = "LPAREN"   -> CharLen(code, p, "(")
      [] kind = "RPAREN"   -> CharLen(code, p, ")")
      [] kind = "COLON"    -> CharLen(code, p, ":")
      [] kind = "COMMA"    -> CharLen(code, p, ",")
      [] kind = "PLUS"     -> CharLen(code, p, "+")
      [] kind = "ID"       -> IF At(code, p) \in IdStart
                              THEN 1 + Run(code, p + 1, Word) ELSE 0
      [] kind = "NEWLINE"  -> CharLen(code, p, "\n")
      [] kind = "SKIP"     -> Run(code, p, Blank)
      [] kind = "MISMATCH" -> IF p < Len(code) /\ At(code, p) # "\n" THEN 1 ELSE 0

Min(S) == CHOOSE x \in S : \A y \in S : x <= y

NoMatch == [kind |-> NoValue, start |-> -1, end |-> -1]

\* the match at offset p of the first alternative of tok_regex, from the k-th
\* on, that matches there
RECURSIVE FirstAlternative(_, _, _)
FirstAlternative(code, p, k) ==
    IF k > Len(token_spec) THEN NoMatch
    ELSE LET n == PatternLen(token_spec[k], code, p)
         IN  IF n > 0 THEN [kind |-> token_spec[k], start |-> p, end |-> p + n]
             ELSE FirstAlternative(code, p, k + 1)

\* the match of tok_regex at offset p
MatchAt(code, p) == FirstAlternative(code, p, 1)

\* re.finditer: the leftmost match starting at or after offset pos
RECURSIVE NextMatch(_, _)
NextMatch(code, pos) ==
    IF pos >= Len(code) THEN NoMatch
    ELSE IF MatchAt(code, pos) # NoMatch THEN MatchAt(code, pos)
    ELSE NextMatch(code, pos + 1)

----------------------------------------------------------------------------
(* tokenize: the frame and its steps.                                       *)

tokenize_enter(code) ==
    [code |-> code, pos |-> 0, mo |-> NoMatch, tokens |-> <<>>,
     pc |-> "for", err |-> NoValue, ret |-> NoValue]

\* the loop body on a SKIP or NEWLINE match: continue
tokenize_skip(f, mo) == [f EXCEPT !.mo = mo, !.pos = mo.end]

\* the loop body on a MISMATCH match with the character passed over
tokenize_pass(f, mo) == [f EXCEPT !.mo = mo, !.pos = mo.end]

\* the loop body on a MISMATCH match: raise RuntimeError
tokenize_raise(f, mo) ==
    [f EXCEPT !.mo = mo, !.pos = mo.end, !.pc = "raised",
              !.err = "Unexpected character: "
                          \o Str(Slice(f.code, mo.start, mo.end))]

\* the loop body on any other match with the quotes of a string literal
\* left out of its value
tokenize_append_unquoted(f, mo) ==
    [f EXCEPT !.mo = mo, !.pos = mo.end,
              !.tokens = Append(@, <<mo.kind,
                                     IF mo.kind = "STRING"
                                     THEN Slice(f.code, mo.start + 1, mo.end - 1)
                                     ELSE Slice(f.code, mo.start, mo.end)>>)]

\* the loop body on any other match: tokens.append((kind, value))
tokenize_append(f, mo) ==
    [f EXCEPT !.mo = mo, !.pos = mo.end,
              !.tokens = Append(@, <<mo.kind, Slice(f.code, mo.start, mo.end)>>)]

\* the iterator is exhausted: return tokens
tokenize_return(f) == [f EXCEPT !.pc = "returned", !.ret = f.tokens]

\* one iteration of the for loop
tokenize_step(f) ==
    LET mo == NextMatch(f.code, f.pos)
    IN  IF mo = NoMatch THEN tokenize_return(f)
        ELSE IF mo.kind = "SKIP" \/ mo.kind = "NEWLINE" THEN tokenize_skip(f, mo)
        ELSE IF mo.kind = "MISMATCH" THEN tokenize_raise(f, mo)
        ELSE tokenize_append(f, mo)

RECURSIVE tokenize_run(_)
tokenize_run(f) == IF f.pc = "for" THEN tokenize_run(tokenize_step(f)) ELSE f

\* tokenize(code), to its return or its exception
tokenize(code) == tokenize_run(tokenize_enter(code))

----------------------------------------------------------------------------
(* Python's repr of a string and of a token tuple, as the f-strings of      *)
(* match and translate_code format them.                                    *)

Chars(s) == {s[k] : k \in 1 .. Len(s)}

\* the quote repr encloses s in: a double quote only for a string that holds
\* single quotes and no double quote
ReprQuote(s) == IF "'" \in Chars(s) /\ "\"" \notin Chars(s) THEN "\"" ELSE "'"

ReprChar(c, quote) ==
    CASE c = "\\" -> "\\\\"
      [] c = "\n" -> "\\n"
      [] c = "\t" -> "\\t"
      [] c = quote -> "\\" \o c
      [] OTHER -> c

ReprStr(s) ==
    ReprQuote(s) \o Str([k \in 1 .. Len(s) |-> ReprChar(s[k], ReprQuote(s))])
                 \o ReprQuote(s)

Chr(kind) ==
    CASE kind = "DEF"    -> <<"D", "E", "F">>
      [] kind = "PRINT"  -> <<"P", "R", "I", "N", "T">>
      [] kind = "STRING" -> <<"S", "T", "R", "I", "N", "G">>
      [] kind = "NUMBER" -> <<"N", "U", "M", "B", "E", "R">>
      [] kind = "ASSIGN" -> <<"A", "S", "S", "I", "G", "N">>
      [] kind = "LPAREN" -> <<"L", "P", "A", "R", "E", "N">>
      [] kind = "RPAREN" -> <<"R", "P", "A", "R", "E", "N">>
      [] kind = "COLON"  -> <<"C", "O", "L", "O", "N">>
      [] kind = "COMMA"  -> <<"C", "O", "M", "M", "A">>
      [] kind = "PLUS"   -> <<"P", "L", "U", "S">>
      [] kind = "ID"     -> <<"I", "D">>

\* repr((kind, value))
ReprToken(t) == "(" \o ReprStr(Chr(t[1])) \o ", " \o ReprStr(t[2]) \o ")"

----------------------------------------------------------------------------
(* parse_tokens: the frame and its steps.  todo holds the kinds the         *)
(* straight-line run of match calls under way has still to match and vals   *)
(* the texts the matches of the statement returned so far.                  *)

parse_enter(tokens) ==
    [tokens |-> tokens, i |-> 0, ast |-> <<>>, pc |-> "while", stmt |-> NoValue,
     todo |-> <<>>, vals |-> <<>>, err |-> NoValue, ret |-> NoValue]

Kind(f, k) == f.tokens[k + 1][1]

Raise(f, type, msg) == [f EXCEPT !.pc = "raised", !.err = [type |-> type, msg |-> msg]]

\* match with the cursor advanced before the test
match_advance_first(f, expected_type) ==
    IF f.i < Len(f.tokens) /\ Kind(f, f.i) = expected_type
    THEN [f EXCEPT !.i = f.i + 1, !.vals = Append(@, f.tokens[f.i + 1][2])]
    ELSE [Raise(f, "SyntaxError",
                "Expected " \o expected_type \o ", got "
                    \o (IF f.i < Len(f.tokens) THEN ReprToken(f.tokens[f.i + 1])
                        ELSE "EOF"))
            EXCEPT !.i = f.i + 1]

\* match(expected_type)
match(f, expected_type) ==
    IF f.i < Len(f.tokens) /\ Kind(f, f.i) = expected_type
    THEN [f EXCEPT !.i = f.i + 1, !.vals = Append(@, f.tokens[f.i + 1][2])]
    ELSE Raise(f, "SyntaxError",
               "Expected " \o expected_type \o ", got "
                   \o (IF f.i < Len(f.tokens) THEN ReprToken(f.tokens[f.i + 1])
                       ELSE "EOF"))

HeaderKinds == <<"DEF", "ID", "LPAREN", "ID", "RPAREN", "COLON">>

PrintKinds == <<"PRINT", "LPAREN", "STRING", "PLUS", "ID", "RPAREN">>

CallKinds == <<"ID", "LPAREN", "STRING", "RPAREN">>

\* the loop with no raise on a statement it does not support
parse_while_no_raise(f) ==
    IF ~(f.i < Len(f.tokens)) THEN [f EXCEPT !.pc = "returned", !.ret = f.ast]
    ELSE IF Kind(f, f.i) = "DEF"
         THEN [f EXCEPT !.pc = "match", !.stmt = "function",
                        !.todo = HeaderKinds, !.vals = <<>>]
    ELSE IF Kind(f, f.i) = "ID" /\ f.i + 1 < Len(f.tokens)
                                /\ Kind(f, f.i + 1) = "LPAREN"
         THEN [f EXCEPT !.pc = "match", !.stmt = "call",
                        !.todo = CallKinds, !.vals = <<>>]
    ELSE f

\* the test of the while loop and the dispatch on the statement's first tokens
parse_while(f) ==
    IF ~(f.i < Len(f.tokens)) THEN [f EXCEPT !.pc = "returned", !.ret = f.ast]
    ELSE IF Kind(f, f.i) = "DEF"
         THEN [f EXCEPT !.pc = "match", !.stmt = "function",
                        !.todo = HeaderKinds, !.vals = <<>>]
    ELSE IF Kind(f, f.i) = "ID" /\ f.i + 1 < Len(f.tokens)
                                /\ Kind(f, f.i + 1) = "LPAREN"
         THEN [f EXCEPT !.pc = "match", !.stmt = "call",
                        !.todo = CallKinds, !.vals = <<>>]
    ELSE Raise(f, "SyntaxError", "Unsupported statement.")

FunctionNode(name, param, body) ==
    [type |-> "function", name |-> name, param |-> param, body |-> body]

PrintNode(left, right) == [type |-> "print", left |-> left, right |-> right]

CallNode(name, arg) == [type |-> "call", name |-> name, arg |-> arg]

\* ast.append of the statement whose matches are done
parse_append(f) ==
    LET node ==
          CASE f.stmt = "function" -> FunctionNode(f.vals[2], f.vals[4], <<>>)
            [] f.stmt = "print" ->
                 FunctionNode(f.vals[2], f.vals[4], <<PrintNode(f.vals[9], f.vals[11])>>)
            [] f.stmt = "call" -> CallNode(f.vals[1], f.vals[3])
    IN  [f EXCEPT !.ast = Append(@, node), !.pc = "while"]

\* the next match call of the statement
parse_match(f) ==
    LET g == match(f, Head(f.todo))
    IN  IF g.pc = "raised" THEN g
        ELSE IF Tail(f.todo) # <<>> THEN [g EXCEPT !.todo = Tail(f.todo)]
        ELSE [g EXCEPT !.todo = <<>>,
                       !.pc = IF f.stmt = "function" THEN "if" ELSE "append"]

\* if tokens[i][0] == 'PRINT': the subscript raises IndexError at the end of
\* the tokens
parse_if(f) ==
    IF ~(f.i < Len(f.tokens)) THEN Raise(f, "IndexError", "list index out of range")
    ELSE IF Kind(f, f.i) = "PRINT"
         THEN [f EXCEPT !.pc = "match", !.stmt = "print", !.todo = PrintKinds]
    ELSE [f EXCEPT !.pc = "append"]

parse_step(f) ==
    CASE f.pc = "while"  -> parse_while(f)
      [] f.pc = "match"  -> parse_match(f)
      [] f.pc = "if"     -> parse_if(f)
      [] f.pc = "append" -> parse_append(f)

RECURSIVE parse_run(_)
parse_run(f) ==
    IF f.pc \in {"returned", "raised"} THEN f ELSE parse_run(parse_step(f))

\* parse_tokens(tokens), to its return or its exception
parse_tokens(tokens) == parse_run(parse_enter(tokens))

----------------------------------------------------------------------------
(* generate_ir and generate_cpp: the frames and their steps.  n counts the  *)
(* nodes the for loop has taken from ast_list.                              *)

\* sep.join(lines)
RECURSIVE Join(_, _)
Join(lines, sep) ==
    IF lines = <<>> THEN ""
    ELSE IF Len(lines) = 1 THEN lines[1]
    ELSE lines[1] \o sep \o Join(Tail(lines), sep)

generate_ir_enter(ast_list) ==
    [ast_list |-> ast_list, n |-> 0, ir_lines |-> <<>>, pc |-> "for", ret |-> NoValue]

\* the lines of the statements of a function body
RECURSIVE IrBody(_)
IrBody(body) ==
    IF body = <<>> THEN <<>>
    ELSE (IF Head(body).type = "print"
          THEN << "t1" \o " = " \o Str(Head(body).left) \o " + " \o Str(Head(body).right),
                  "print " \o "t1" >>
          ELSE <<>>)
         \o IrBody(Tail(body))

\* generate_ir with the lines joined and a newline added after the last
generate_ir_step_trailing(f) ==
    IF f.n = Len(f.ast_list)
    THEN [f EXCEPT !.pc = "returned",
                   !.ret = IF f.ir_lines = <<>> THEN ""
                           ELSE Join(f.ir_lines, "\n") \o "\n"]
    ELSE LET node == f.ast_list[f.n + 1]
         IN  [f EXCEPT
                !.n = f.n + 1,
                !.ir_lines =
                   IF node.type = "function"
                   THEN (Append(@, "func " \o Str(node.name) \o "("
                                        \o Str(node.param) \o ")")
                           \o IrBody(node.body)) \o <<"endfunc">>
                   ELSE IF node.type = "call"
                   THEN Append(@, "call " \o Str(node.name) \o "("
                                      \o Str(node.arg) \o ")")
                   ELSE @]

\* one iteration of the for loop of generate_ir, or its return
generate_ir_step(f) ==
    IF f.n = Len(f.ast_list)
    THEN [f EXCEPT !.pc = "returned", !.ret = Join(f.ir_lines, "\n")]
    ELSE LET node == f.ast_list[f.n + 1]
         IN  [f EXCEPT
                !.n = f.n + 1,
                !.ir_lines =
                   IF node.type = "function"
                   THEN (Append(@, "func " \o Str(node.name) \o "("
                                        \o Str(node.param) \o ")")
                           \o IrBody(node.body)) \o <<"endfunc">>
                   ELSE IF node.type = "call"
                   THEN Append(@, "call " \o Str(node.name) \o "("
                                      \o Str(node.arg) \o ")")
                   ELSE @]

RECURSIVE generate_ir_run(_)
generate_ir_run(f) ==
    IF f.pc = "returned" THEN f ELSE generate_ir_run(generate_ir_step(f))

generate_ir(ast_list) == generate_ir_run(generate_ir_enter(ast_list))

generate_cpp_enter(ast_list) ==
    [ast_list |-> ast_list, n |-> 0,
     cpp_lines |-> <<"#include <iostream>", "#include <string>",
                     "using namespace std;", "">>,
     main_added |-> FALSE, pc |-> "for", ret |-> NoValue]

RECURSIVE CppBody(_)
CppBody(body) ==
    IF body = <<>> THEN <<>>
    ELSE (IF Head(body).type = "print"
          THEN << "    cout << " \o Str(Head(body).left) \o " + "
                      \o Str(Head(body).right) \o " << endl;" >>
          ELSE <<>>)
         \o CppBody(Tail(body))

\* the loop body of generate_cpp on a function node
generate_cpp_function(f, node) ==
    [f EXCEPT
       !.n = f.n + 1,
       !.cpp_lines =
          (Append(@, "void " \o Str(node.name) \o "(string " \o Str(node.param) \o ") {")
              \o CppBody(node.body)) \o <<"}">>]

\* the loop body of generate_cpp on a call node with main_added left unset
generate_cpp_call_unset(f, node) ==
    [f EXCEPT
       !.n = f.n + 1,
       !.cpp_lines =
          Append(IF ~f.main_added THEN Append(@, "\nint main() {") ELSE @,
                 "    " \o Str(node.name) \o "(" \o Str(node.arg) \o ");")]

\* the loop body of generate_cpp on a call node
generate_cpp_call(f, node) ==
    [f EXCEPT
       !.n = f.n + 1,
       !.main_added = TRUE,
       !.cpp_lines =
          Append(IF ~f.main_added THEN Append(@, "\nint main() {") ELSE @,
                 "    " \o Str(node.name) \o "(" \o Str(node.arg) \o ");")]

\* after the loop: the closing of main, if it was opened, and the return
generate_cpp_return(f) ==
    LET cpp_lines == IF f.main_added
                     THEN f.cpp_lines \o <<"    return 0;", "}">>
                     ELSE f.cpp_lines
    IN  [f EXCEPT !.cpp_lines = cpp_lines, !.pc = "returned",
                  !.ret = Join(cpp_lines, "\n")]

generate_cpp_step(f) ==
    IF f.n = Len(f.ast_list) THEN generate_cpp_return(f)
    ELSE LET node == f.ast_list[f.n + 1]
         IN  IF node.type = "function" THEN generate_cpp_function(f, node)
             ELSE IF node.type = "call" THEN generate_cpp_call(f, node)
             ELSE [f EXCEPT !.n = f.n + 1]

RECURSIVE generate_cpp_run(_)
generate_cpp_run(f) ==
    IF f.pc = "returned" THEN f ELSE generate_cpp_run(generate_cpp_step(f))

generate_cpp(ast_list) == generate_cpp_run(generate_cpp_enter(ast_list))

----------------------------------------------------------------------------
(* translate_code: the widgets it reads and writes, and the handler.        *)

\* repr of a statement of a function body, of a node and of a list of them
ReprStmt(stmt) ==
    "{'type': 'print', 'left': " \o ReprStr(stmt.left)
        \o ", 'right': " \o ReprStr(stmt.right) \o "}"

ReprList(items) == "[" \o Join(items, ", ") \o "]"

ReprNode(node) ==
    IF node.type = "function"
    THEN "{'type': 'function', 'name': " \o ReprStr(node.name)
            \o ", 'param': " \o ReprStr(node.param) \o ", 'body': "
            \o ReprList([k \in 1 .. Len(node.body) |-> ReprStmt(node.body[k])]) \o "}"
    ELSE "{'type': 'call', 'name': " \o ReprStr(node.name)
            \o ", 'arg': " \o ReprStr(node.arg) \o "}"

ReprAst(ast) == ReprList([k \in 1 .. Len(ast) |-> ReprNode(ast[k])])

\* what the loop of token_output.insert leaves in the pane
TokenLines(tokens) ==
    Join([k \in 1 .. Len(tokens) |-> ReprToken(tokens[k]) \o "\n"], "")

\* the widgets after the layout code ran
gui_enter ==
    [input_text |-> <<>>, token_output |-> "", ast_output |-> "",
     ir_output |-> "", cpp_output |-> "", dialog |-> NoValue]

\* messagebox.showerror("Translation Error", str(e))
showerror(g, msg) == [g EXCEPT !.dialog = msg]

\* translate_code with each pane written as soon as its stage has returned
translate_code_eager(g) ==
    LET input_code == g.input_text \o <<"\n">>
        t == tokenize(input_code)
        g1 == [g EXCEPT !.token_output = TokenLines(t.ret)]
        p == parse_tokens(t.ret)
        g2 == [g1 EXCEPT !.ast_output = ReprAst(p.ret)]
    IN  IF t.pc = "raised" THEN showerror(g, t.err)
        ELSE IF p.pc = "raised" THEN showerror(g1, p.err.msg)
        ELSE [g2 EXCEPT !.ir_output = generate_ir(p.ret).ret,
                        !.cpp_output = generate_cpp(p.ret).ret]

\* translate_code(): the try block to its end or to the exception it catches
translate_code(g) ==
    LET input_code == g.input_text \o <<"\n">>
        t == tokenize(input_code)
        p == parse_tokens(t.ret)
    IN  IF t.pc = "raised" THEN showerror(g, t.err)
        ELSE IF p.pc = "raised" THEN showerror(g, p.err.msg)
        ELSE [g EXCEPT !.token_output = TokenLines(t.ret),
                       !.ast_output = ReprAst(p.ret),
                       !.ir_output = generate_ir(p.ret).ret,
                       !.cpp_output = generate_cpp(p.ret).ret]

----------------------------------------------------------------------------
(* The tokenizer alone, on every text of at most MaxPieces pieces.          *)

Idle == [pc |-> "idle"]

Pieces ==
    { <<"d", "e", "f">>, <<"p", "r", "i", "n", "t">>, <<"x">>, <<"1">>,
      <<"\"">>, <<" ">>, <<"\t">>, <<"\n">>, <<"(">>, <<")">>, <<":">>,
      <<",">>, <<"+">>, <<"=">>, <<"$">> }

Texts ==
    {Flatten(ps) : ps \in UNION {[1 .. n -> Pieces] : n \in 0 .. MaxPieces}}

InitLex ==
    /\ lex \in {tokenize_enter(code) : code \in Texts}
    /\ prs = Idle
    /\ gen = Idle
    /\ gui = Idle

LexSkip ==
    /\ lex.pc = "for"
    /\ NextMatch(lex.code, lex.pos).kind \in {"SKIP", "NEWLINE"}
    /\ lex' = tokenize_skip(lex, NextMatch(lex.code, lex.pos))
    /\ UNCHANGED <<prs, gen, gui>>

LexRaise ==
    /\ lex.pc = "for"
    /\ NextMatch(lex.code, lex.pos).kind = "MISMATCH"
    /\ lex' = tokenize_raise(lex, NextMatch(lex.code, lex.pos))
    /\ UNCHANGED <<prs, gen, gui>>

LexAppend ==
    /\ lex.pc = "for"
    /\ NextMatch(lex.code, lex.pos).kind
           \notin {NoValue, "SKIP", "NEWLINE", "MISMATCH"}
    /\ lex' = tokenize_append(lex, NextMatch(lex.code, lex.pos))
    /\ UNCHANGED <<prs, gen, gui>>

LexReturn ==
    /\ lex.pc = "for"
    /\ NextMatch(lex.code, lex.pos) = NoMatch
    /\ lex' = tokenize_return(lex)
    /\ UNCHANGED <<prs, gen, gui>>

NextLex == LexSkip \/ LexRaise \/ LexAppend \/ LexReturn

SpecLex == InitLex /\ [][NextLex]_vars

----------------------------------------------------------------------------
(* Claims about the tokenizer.                                              *)

TokenValues(tokens) == Flatten([k \in 1 .. Len(tokens) |-> tokens[k][2]])

\* text with its spaces, tabs and newlines outside string literals removed;
\* quoted tells whether the text starts inside a string literal
RECURSIVE Stripped(_, _)
Stripped(text, quoted) ==
    IF text = <<>> THEN <<>>
    ELSE IF Head(text) = "\"" THEN <<"\"">> \o Stripped(Tail(text), ~quoted)
    ELSE IF ~quoted /\ Head(text) \in {" ", "\t", "\n"}
         THEN Stripped(Tail(text), quoted)
    ELSE <<Head(text)>> \o Stripped(Tail(text), quoted)

\* C5: while tokenize has not failed, the matches scanned so far partition the
\* text scanned so far: each match starts where the one before it ended and is
\* not empty, the token texts concatenated are the scanned text without its
\* spaces, tabs and newlines outside string literals, and tokenize returns
\* only when the whole input is scanned.
C5_Partition ==
    /\ [](lex.pc \in {"for", "returned"} =>
            TokenValues(lex.tokens) = Stripped(Slice(lex.code, 0, lex.pos), FALSE))
    /\ [](lex.pc = "returned" =>
            lex.pos = Len(lex.code) /\ lex.ret = lex.tokens)
    /\ [][lex'.mo # lex.mo =>
            lex'.mo.start = lex.pos /\ lex'.mo.end > lex'.mo.start
                                    /\ lex'.pos = lex'.mo.end]_vars

C5_Witness ==
    /\ lex.pc = "returned"
    /\ Len(lex.ret) = 2
    /\ Len(TokenValues(lex.ret)) < Len(lex.code)

Quotes(text) == Cardinality({q \in 1 .. Len(text) : text[q] = "\""})

\* the characters of the grammar: those of the eleven token patterns and the
\* discarded whitespace
Legal == Word \cup {"\"", "=", "(", ")", ":", ",", "+", " ", "\t", "\n"}

\* the offsets of the characters that match no pattern: outside a string
\* literal, a character that is not of the grammar or a quote that no later
\* quote closes
Offending(code) ==
    {p \in 0 .. Len(code) - 1 :
        /\ Quotes(Slice(code, 0, p)) % 2 = 0
        /\ \/ At(code, p) \notin Legal
           \/ At(code, p) = "\"" /\ Quotes(Slice(code, p + 1, Len(code))) = 0}

ElevenKinds ==
    {"DEF", "PRINT", "STRING", "NUMBER", "ASSIGN", "LPAREN", "RPAREN",
     "COLON", "COMMA", "PLUS", "ID"}

\* C6: tokenize fails exactly on the texts that hold an offending character,
\* its error names the leftmost one and it returns nothing; every token it
\* collects or returns has one of the eleven kinds.
C6_LexicalError ==
    /\ lex.pc = "raised" =>
          /\ Offending(lex.code) # {}
          /\ lex.err = "Unexpected character: "
                           \o At(lex.code, Min(Offending(lex.code)))
          /\ lex.ret = NoValue
    /\ lex.pc = "returned" => Offending(lex.code) = {} /\ lex.ret = lex.tokens
    /\ lex.pc # "idle" =>
          \A k \in 1 .. Len(lex.tokens) : lex.tokens[k][1] \in ElevenKinds

C6_Witness ==
    /\ lex.pc = "raised"
    /\ lex.tokens # <<>>
    /\ lex.err = "Unexpected character: \""

\* C7: no token has kind ID and the text of a keyword.
C7_KeywordNeverId ==
    lex.pc # "idle" =>
        \A k \in 1 .. Len(lex.tokens) :
            ~ /\ lex.tokens[k][1] = "ID"
              /\ lex.tokens[k][2] \in {<<"d", "e", "f">>, <<"p", "r", "i", "n", "t">>}

----------------------------------------------------------------------------
(* The parser alone, on the token sequences of every program of at most     *)
(* MaxStmts statements, whole, cut short or with one token replaced.        *)

Tok(kind, text) == <<kind, text>>

HeaderTokens ==
    << Tok("DEF", <<"d", "e", "f">>), Tok("ID", <<"f">>), Tok("LPAREN", <<"(">>),
       Tok("ID", <<"x">>), Tok("RPAREN", <<")">>), Tok("COLON", <<":">>) >>

PrintTokens ==
    << Tok("PRINT", <<"p", "r", "i", "n", "t">>), Tok("LPAREN", <<"(">>),
       Tok("STRING", <<"\"", "a", "\"">>), Tok("PLUS", <<"+">>),
       Tok("ID", <<"x">>), Tok("RPAREN", <<")">>) >>

CallTokens ==
    << Tok("ID", <<"f">>), Tok("LPAREN", <<"(">>),
       Tok("STRING", <<"\"", "a", "\"">>), Tok("RPAREN", <<")">>) >>

StmtTokens == {HeaderTokens, HeaderTokens \o PrintTokens, CallTokens}

ProgramTokens ==
    {Flatten(ss) : ss \in UNION {[1 .. n -> StmtTokens] : n \in 0 .. MaxStmts}}

OtherTokens ==
    { Tok("NUMBER", <<"1">>), Tok("ID", <<"y">>), Tok("LPAREN", <<"(">>),
      Tok("PRINT", <<"p", "r", "i", "n", "t">>) }

Without(ts, k) == SubSeq(ts, 1, k - 1) \o SubSeq(ts, k + 1, Len(ts))

TokenInputs ==
    UNION { {SubSeq(ts, 1, n) : n \in 0 .. Len(ts)}
               \cup {Without(ts, k) : k \in 1 .. Len(ts)}
               \cup {[ts EXCEPT ![k] = t] : k \in 1 .. Len(ts), t \in OtherTokens}
            : ts \in ProgramTokens }

InitParse ==
    /\ prs \in {parse_enter(ts) : ts \in TokenInputs}
    /\ lex = Idle
    /\ gen = Idle
    /\ gui = Idle

ParseWhile ==
    /\ prs.pc = "while"
    /\ prs' = parse_while(prs)
    /\ UNCHANGED <<lex, gen, gui>>

ParseMatch ==
    /\ prs.pc = "match"
    /\ prs' = parse_match(prs)
    /\ UNCHANGED <<lex, gen, gui>>

ParseIf ==
    /\ prs.pc = "if"
    /\ prs' = parse_if(prs)
    /\ UNCHANGED <<lex, gen, gui>>

ParseAppend ==
    /\ prs.pc = "append"
    /\ prs' = parse_append(prs)
    /\ UNCHANGED <<lex, gen, gui>>

NextParse == ParseWhile \/ ParseMatch \/ ParseIf \/ ParseAppend

SpecParse == InitParse /\ [][NextParse]_vars

\* parse_tokens runs without suspension: a step that can be taken is taken
SpecParseFair == SpecParse /\ WF_vars(NextParse)

----------------------------------------------------------------------------
(* Claims about the parser.                                                 *)

ParseDone == prs.pc \in {"returned", "raised"}

\* the headers of tokens that no print keyword follows
EmptyHeaders(tokens) ==
    {k \in 1 .. Len(tokens) :
        /\ tokens[k][1] = "COLON"
        /\ k = Len(tokens) \/ tokens[k + 1][1] # "PRINT"}

EmptyFunctions(ast) ==
    {k \in 1 .. Len(ast) : ast[k].type = "function" /\ ast[k].body = <<>>}

\* C3: on the tokens of a program of the grammar, a header that no print
\* keyword follows, the last statement included, is legal: parse_tokens
\* returns, with a function node of empty body for each such header.
C3_EmptyBodyLegal ==
    (ParseDone /\ prs.tokens \in ProgramTokens) =>
        /\ prs.pc = "returned"
        /\ Cardinality(EmptyFunctions(prs.ret))
              = Cardinality(EmptyHeaders(prs.tokens))

\* C9: a match call with the cursor inside the tokens and on a token of the
\* expected kind advances the cursor by one and returns the token's text; any
\* other call raises SyntaxError naming the expected kind and the token, or
\* EOF, and leaves the cursor where it was.  A header whose colon is missing
\* before print fails with: Expected COLON, got ('PRINT', 'print').
C9_MatchOrFail ==
    /\ [][prs.pc = "match" =>
            IF prs.i < Len(prs.tokens) /\ prs.tokens[prs.i + 1][1] = Head(prs.todo)
            THEN /\ prs'.pc # "raised"
                 /\ prs'.i = prs.i + 1
                 /\ prs'.vals = Append(prs.vals, prs.tokens[prs.i + 1][2])
            ELSE /\ prs'.pc = "raised"
                 /\ prs'.i = prs.i
                 /\ prs'.err.type = "SyntaxError"
                 /\ prs'.err.msg =
                       "Expected " \o Head(prs.todo) \o ", got "
                           \o (IF prs.i = Len(prs.tokens) THEN "EOF"
                               ELSE "('" \o prs.tokens[prs.i + 1][1] \o "', "
                                        \o ReprStr(prs.tokens[prs.i + 1][2]) \o ")")
                 /\ prs'.ret = NoValue]_vars
    /\ [](/\ ParseDone
          /\ prs.tokens = Without(HeaderTokens \o PrintTokens, 6)
          => /\ prs.pc = "raised"
             /\ prs.err = [type |-> "SyntaxError",
                           msg |-> "Expected COLON, got ('PRINT', 'print')"])

C9_Witness ==
    /\ prs.pc = "raised"
    /\ prs.i = 5
    /\ prs.vals = <<<<"d", "e", "f">>, <<"f">>, <<"(">>, <<"x">>, <<")">>>>
    /\ prs.err.msg = "Expected COLON, got ('PRINT', 'print')"

\* the tokens the statements of ast hold
RECURSIVE Consumed(_)
Consumed(ast) ==
    IF ast = <<>> THEN 0
    ELSE Consumed(Tail(ast))
           + (IF Head(ast).type = "call" THEN Len(CallKinds)
              ELSE IF Head(ast).body = <<>> THEN Len(HeaderKinds)
              ELSE Len(HeaderKinds) + Len(PrintKinds))

\* C10: parse_tokens terminates; its cursor starts at 0, never decreases and
\* never passes the end of the tokens; every iteration of the loop that does
\* not raise appends one statement and advances the cursor by that
\* statement's tokens; on return the cursor is at the end of the tokens.
C10_Terminates ==
    /\ <>ParseDone
    /\ [](prs.i >= 0 /\ prs.i <= Len(prs.tokens))
    /\ [](prs.pc \in {"while", "returned"} => prs.i = Consumed(prs.ast))
    /\ [](prs.pc = "returned" => prs.i = Len(prs.tokens) /\ prs.ret = prs.ast)
    /\ [][prs'.i >= prs.i]_vars
    /\ [][prs.pc = "append" =>
            Len(prs'.ast) = Len(prs.ast) + 1 /\ prs'.pc = "while"]_vars

C10_Witness ==
    /\ prs.pc = "returned"
    /\ Len(prs.ret) = 2
    /\ prs.i = Len(prs.tokens)
    /\ prs.i = Len(HeaderKinds) + Len(PrintKinds) + Len(CallKinds)

----------------------------------------------------------------------------
(* The generators alone, generate_ir and then generate_cpp as               *)
(* translate_code calls them, on every program of at most MaxNodes nodes.   *)

S_f == <<"f">>
S_x == <<"x">>
S_y == <<"y">>
S_greet == <<"g", "r", "e", "e", "t">>
S_name == <<"n", "a", "m", "e">>
S_shout == <<"s", "h", "o", "u", "t">>
S_a == <<"\"", "a", "\"">>
S_Hello == <<"\"", "H", "e", "l", "l", "o", " ", "\"">>
S_World == <<"\"", "W", "o", "r", "l", "d", "\"">>
S_hi == <<"\"", "h", "i", "\"">>

Nodes ==
    { FunctionNode(S_f, S_x, <<>>),
      FunctionNode(S_f, S_x, <<PrintNode(S_a, S_y)>>),
      FunctionNode(S_greet, S_name, <<PrintNode(S_Hello, S_name)>>),
      CallNode(S_greet, S_World),
      CallNode(S_shout, S_hi) }

Programs == UNION {[1 .. n -> Nodes] : n \in 0 .. MaxNodes}

InitGen ==
    /\ gen \in {[ir |-> generate_ir_enter(ast), cpp |-> Idle] : ast \in Programs}
    /\ lex = Idle
    /\ prs = Idle
    /\ gui = Idle

GenIrNode ==
    /\ gen.ir.pc = "for"
    /\ gen.ir.n < Len(gen.ir.ast_list)
    /\ gen' = [gen EXCEPT !.ir = generate_ir_step(@)]
    /\ UNCHANGED <<lex, prs, gui>>

GenIrReturn ==
    /\ gen.ir.pc = "for"
    /\ gen.ir.n = Len(gen.ir.ast_list)
    /\ gen' = [ir |-> generate_ir_step(gen.ir),
               cpp |-> generate_cpp_enter(gen.ir.ast_list)]
    /\ UNCHANGED <<lex, prs, gui>>

GenCppFunction ==
    /\ gen.cpp.pc = "for"
    /\ gen.cpp.n < Len(gen.cpp.ast_list)
    /\ gen.cpp.ast_list[gen.cpp.n + 1].type = "function"
    /\ gen' = [gen EXCEPT !.cpp = generate_cpp_step(@)]
    /\ UNCHANGED <<lex, prs, gui>>

GenCppCall ==
    /\ gen.cpp.pc = "for"
    /\ gen.cpp.n < Len(gen.cpp.ast_list)
    /\ gen.cpp.ast_list[gen.cpp.n + 1].type = "call"
    /\ gen' = [gen EXCEPT !.cpp = generate_cpp_step(@)]
    /\ UNCHANGED <<lex, prs, gui>>

GenCppReturn ==
    /\ gen.cpp.pc = "for"
    /\ gen.cpp.n = Len(gen.cpp.ast_list)
    /\ gen' = [gen EXCEPT !.cpp = generate_cpp_step(@)]
    /\ UNCHANGED <<lex, prs, gui>>

NextGen ==
    GenIrNode \/ GenIrReturn \/ GenCppFunction \/ GenCppCall \/ GenCppReturn

SpecGen == InitGen /\ [][NextGen]_vars

----------------------------------------------------------------------------
(* Claims about the generators.                                             *)

\* the IR text of one node, as the claim words it
IrFragment(node) ==
    IF node.type = "function"
    THEN "func " \o Str(node.name) \o "(" \o Str(node.param) \o ")\n"
           \o (IF node.body # <<>>
               THEN "t1 = " \o Str(node.body[1].left) \o " + "
                       \o Str(node.body[1].right) \o "\nprint t1\n"
               ELSE "")
           \o "endfunc"
    ELSE "call " \o Str(node.name) \o "(" \o Str(node.arg) \o ")"

RECURSIVE IrText(_)
IrText(nodes) ==
    IF nodes = <<>> THEN ""
    ELSE IrFragment(Head(nodes))
           \o (IF Tail(nodes) = <<>> THEN "" ELSE "\n" \o IrText(Tail(nodes)))

\* C1: generate_ir returns the fragments of the nodes, in node order, joined
\* by single newlines with no newline after the last; the program of a
\* function greet and a call of it yields the five lines of its IR.
C1_IrText ==
    gen.ir.pc = "returned" =>
        /\ gen.ir.ret = IrText(gen.ir.ast_list)
        /\ gen.ir.ast_list = << FunctionNode(S_greet, S_name,
                                             <<PrintNode(S_Hello, S_name)>>),
                                CallNode(S_greet, S_World) >>
           => gen.ir.ret = "func greet(name)\nt1 = \"Hello \" + name\nprint t1\nendfunc\ncall greet(\"World\")"
        /\ gen.ir.ast_list = <<CallNode(S_shout, S_hi)>>
           => gen.ir.ret = "call shout(\"hi\")"

C1_Witness ==
    /\ gen.ir.pc = "returned"
    /\ gen.ir.ret = "func greet(name)\nt1 = \"Hello \" + name\nprint t1\nendfunc\ncall greet(\"World\")"

Count(x, seq) == Cardinality({k \in 1 .. Len(seq) : seq[k] = x})

MainOpen == "\nint main() {"

Return0 == "    return 0;"

\* the nodes among the first n of ast_list that are calls
CallsIn(ast_list, n) == {k \in 1 .. n : ast_list[k].type = "call"}

\* the lines generate_cpp emits for nodes, none of them being a call
RECURSIVE FunctionLines(_)
FunctionLines(nodes) ==
    IF nodes = <<>> THEN 0
    ELSE 2 + Len(Head(nodes).body) + FunctionLines(Tail(nodes))

\* C2: in generate_cpp the line that opens main is emitted at most once, when
\* the loop reaches the first call node, right after the lines of the nodes
\* before it; return 0; and the closing brace end the lines once, exactly when
\* main was opened; a program without a call node has neither line.
C2_MainOnce ==
    LET c == gen.cpp
        calls == CallsIn(c.ast_list, c.n)
    IN  c.pc # "idle" =>
          /\ c.main_added = (calls # {})
          /\ Count(MainOpen, c.cpp_lines) = IF calls = {} THEN 0 ELSE 1
          /\ calls # {} =>
                c.cpp_lines[4 + FunctionLines(SubSeq(c.ast_list, 1, Min(calls) - 1)) + 1]
                   = MainOpen
          /\ c.pc = "for" => Count(Return0, c.cpp_lines) = 0
          /\ c.pc = "returned" =>
                /\ c.n = Len(c.ast_list)
                /\ c.ret = Join(c.cpp_lines, "\n")
                /\ Count(Return0, c.cpp_lines) = IF calls = {} THEN 0 ELSE 1
                /\ Count("}", c.cpp_lines)
                      = Len(c.ast_list) - Cardinality(calls)
                           + (IF calls = {} THEN 0 ELSE 1)
                /\ calls # {} =>
                      SubSeq(c.cpp_lines, Len(c.cpp_lines) - 1, Len(c.cpp_lines))
                         = <<Return0, "}">>

C2_Witness ==
    /\ gen.cpp.pc = "returned"
    /\ Len(gen.cpp.ast_list) = 3
    /\ CallsIn(gen.cpp.ast_list, 3) = {2, 3}
    /\ Count(MainOpen, gen.cpp.cpp_lines) = 1

FunctionOpen(node) ==
    "void " \o Str(node.name) \o "(string " \o Str(node.param) \o ") {"

CallLine(node) == "    " \o Str(node.name) \o "(" \o Str(node.arg) \o ");"

\* C4: in the text generate_cpp returns no function definition opens after
\* the line that opens main, and the lines after it are calls, return 0; and
\* the closing brace.
C4_FunctionsAtTopLevel ==
    LET c == gen.cpp
        nodes == {c.ast_list[k] : k \in 1 .. Len(c.ast_list)}
    IN  c.pc = "returned" =>
          \A k \in 1 .. Len(c.cpp_lines) : c.cpp_lines[k] = MainOpen =>
              /\ \A j \in k + 1 .. Len(c.cpp_lines) :
                    c.cpp_lines[j] \notin
                        {FunctionOpen(node) : node \in {m \in nodes : m.type = "function"}}
              /\ \A j \in k + 1 .. Len(c.cpp_lines) - 2 :
                    c.cpp_lines[j] \in
                        {CallLine(node) : node \in {m \in nodes : m.type = "call"}}

----------------------------------------------------------------------------
(* The handler, on the texts a user may leave in the input widget between   *)
(* two presses of the button.                                               *)

W_def == <<"d", "e", "f">>
W_print == <<"p", "r", "i", "n", "t">>
W_indent == <<"\n", " ", " ", " ", " ">>

\* def greet(name):\n    print("Hello " + name)\ngreet("World")
Scenario1 ==
    Flatten(<< W_def, <<" ">>, S_greet, <<"(">>, S_name, <<")", ":">>, W_indent,
               W_print, <<"(">>, S_Hello, <<" ", "+", " ">>, S_name, <<")", "\n">>,
               S_greet, <<"(">>, S_World, <<")">> >>)

\* shout("hi")
Scenario2 == Flatten(<< S_shout, <<"(">>, S_hi, <<")">> >>)

\* def f(x):\n    print("a" + x)
DefF ==
    Flatten(<< W_def, <<" ">>, S_f, <<"(">>, S_x, <<")", ":">>, W_indent,
               W_print, <<"(">>, S_a, <<" ", "+", " ">>, S_x, <<")">> >>)

\* def f(x):\n    print("a" + x) $
Scenario3 == DefF \o <<" ", "$">>

\* def f(x) print("a"+x)
Scenario4 ==
    Flatten(<< W_def, <<" ">>, S_f, <<"(">>, S_x, <<")", " ">>,
               W_print, <<"(">>, S_a, <<"+">>, S_x, <<")">> >>)

\* def f(x):
HeaderOnly == Flatten(<< W_def, <<" ">>, S_f, <<"(">>, S_x, <<")", ":">> >>)

SourceTexts ==
    { <<>>, Scenario1, Scenario2, Scenario3, Scenario4, DefF, HeaderOnly,
      HeaderOnly \o <<"\n">> \o Scenario2,
      Scenario2 \o <<"\n">> \o DefF,
      Scenario2 \o <<"\n">> \o Scenario2,
      S_shout, Scenario2 \o <<"\"">>, <<"1">> \o W_def }

InitGui ==
    /\ gui = gui_enter
    /\ lex = Idle
    /\ prs = Idle
    /\ gen = Idle

\* the user edits the input widget
EditInput ==
    /\ \E text \in SourceTexts : gui' = [gui EXCEPT !.input_text = text]
    /\ UNCHANGED <<lex, prs, gen>>

\* the user presses Translate
Translate ==
    /\ gui' = translate_code(gui)
    /\ UNCHANGED <<lex, prs, gen>>

NextGui == EditInput \/ Translate

SpecGui == InitGui /\ [][NextGui]_vars

----------------------------------------------------------------------------
(* Claims about the handler.                                                *)

Panes(g) == <<g.token_output, g.ast_output, g.ir_output, g.cpp_output>>

\* the outcome of the four stages on the text of the input widget
Stages(text) ==
    LET t == tokenize(text \o <<"\n">>)
        p == IF t.pc = "returned" THEN parse_tokens(t.ret) ELSE Idle
        ok == t.pc = "returned" /\ p.pc = "returned"
    IN  [ok |-> ok,
         msg |-> IF t.pc = "raised" THEN t.err
                 ELSE IF p.pc = "raised" THEN p.err.msg ELSE NoValue,
         panes |-> IF ok
                   THEN <<TokenLines(t.ret), ReprAst(p.ret),
                          generate_ir(p.ret).ret, generate_cpp(p.ret).ret>>
                   ELSE NoValue]

\* the outcomes on the texts of the model
StageTable == [text \in SourceTexts |-> Stages(text)]

\* C8: a press of Translate on a text a stage fails on shows the error and
\* leaves the four panes as they were; on any other text it puts the four
\* artifacts of that text in the panes; so the panes are those of the start
\* or the four artifacts of one text.
C8_AllOrNothing ==
    /\ [][gui'.input_text = gui.input_text =>
            IF StageTable[gui.input_text].ok
            THEN /\ Panes(gui') = StageTable[gui.input_text].panes
                 /\ gui'.dialog = gui.dialog
            ELSE /\ Panes(gui') = Panes(gui)
                 /\ gui'.dialog = StageTable[gui.input_text].msg]_vars
    /\ [](\/ Panes(gui) = Panes(gui_enter)
          \/ \E text \in SourceTexts :
                StageTable[text].ok /\ Panes(gui) = StageTable[text].panes)

\* the panes hold the artifacts of shout("hi") after a later press failed on
\* the text with the stray $
C8_Witness ==
    /\ gui.input_text = Scenario3
    /\ gui.dialog = "Unexpected character: $"
    /\ Panes(gui) =
          << "('ID', 'shout')\n('LPAREN', '(')\n('STRING', '\"hi\"')\n('RPAREN', ')')\n",
             "[{'type': 'call', 'name': 'shout', 'arg': '\"hi\"'}]",
             "call shout(\"hi\")",
             "#include <iostream>\n#include <string>\nusing namespace std;\n\n\nint main() {\n    shout(\"hi\");\n    return 0;\n}" >>

=============================================================================
